---- MODULE Spec2Model ----
(***************************************************************************)
(* Model of src/main.py: the Looper that polls a channel's listings per    *)
(* content type and announces every video id it has not yet recorded.      *)
(*                                                                         *)
(* Program state: self.announcements, self.video_ids, the position of the  *)
(* constructor loop / the looper loop (pc, idx) and the rest of the        *)
(* iteration of check_new_video_ids (pending).                             *)
(* History state (not read by the program): baseline, succeeded, ev and    *)
(* the h* variables describing the last bounded fetch.                     *)
(***************************************************************************)
EXTENDS Integers, Sequences, FiniteSets, TLC

\* Size of the universe of video ids the upstream listing can contain.
NumIds == 2

Ids == 1..NumIds

\* Looper.CONTENT_TYPES, in the order typing.get_args yields them.
CONTENT_TYPES == <<"videos", "shorts", "streams">>

ContentTypeSet == {CONTENT_TYPES[k] : k \in 1..Len(CONTENT_TYPES)}

\* limit=28 of the steady-state call of get_video_ids.
Limit == 28

\* HTTP status the announcement counts as sent.
StatusOk == 200

\* Statuses the Discord endpoint is taken to answer with.
StatusCodes == {200, 403}

\* Ways a listing fetch fails and the exception scrapetube/requests raises.
FailureKinds == {"network", "malformed", "truncated"}

Raises(kind) ==
    CASE kind = "network"   -> "ConnectionError"
      [] kind = "malformed" -> "JSONDecodeError"
      [] kind = "truncated" -> "ChunkedEncodingError"

FetchErrors == {Raises(k) : k \in FailureKinds}

\* The except clause of try_check_video_ids.
CaughtFetchNoConnection == {"JSONDecodeError"}

CaughtFetchErrors == {"ConnectionError", "JSONDecodeError"}

\* Exceptions requests.post raises; Timeout covers connect and read timeout.
PostErrors == {"Timeout", "ConnectionError"}

\* What requests.post does: a response with a status, or an exception.
PostOutcomes ==
    {[exc |-> "none", status |-> s] : s \in StatusCodes}
        \cup {[exc |-> e, status |-> 0] : e \in PostErrors}

\* The outcome a step takes when the post is never reached.
NoPost == [exc |-> "none", status |-> StatusOk]

\* The except clause of check_new_video_id.
CaughtPostNone == {}

CaughtPostErrors == {"Timeout"}

\* Listings the unlimited fetch of the constructor returns: ids are numbered
\* in publication order and the listing holds those published so far.
Baselines == {1..k : k \in 0..NumIds}

\* Configurations: every content type mapped, or one mapping missing.
Configs == {ContentTypeSet} \cup {ContentTypeSet \ {c} : c \in ContentTypeSet}

VARIABLES
    pc,             \* "init", "idle", "scanning" or "stopped"
    announcements,  \* content types self.announcements has a mapping for
    video_ids,      \* self.video_ids: content type -> set of ids
    idx,            \* position in CONTENT_TYPES / in the keys of video_ids
    pending,        \* ids the loop of check_new_video_ids has yet to visit
    baseline,       \* history: result of the constructor's fetch
    succeeded,      \* history: ids whose send_announcment returned True
    hct,            \* history: content type of the last bounded fetch
    hstatus,        \* history: "none", "ok" or "failed" for that fetch
    hfetched,       \* history: the listing it returned
    hknown,         \* history: video_ids[hct] when it returned
    attempts,       \* history: calls of send_announcment since that fetch
    nfetch,         \* history: bounded fetches per content type this cycle
    watch,          \* history: the content type observed across cycles
    wseen,          \* history: a bounded fetch of watch has returned
    wlisting,       \* history: the listing the last such fetch returned
    wfailed,        \* history: ids since then whose announcement was not sent
    wsame,          \* history: that fetch returned the listing of the one before
    ev              \* history: the last step taken

vars == <<pc, announcements, video_ids, idx, pending, baseline, succeeded,
          hct, hstatus, hfetched, hknown, attempts, nfetch,
          watch, wseen, wlisting, wfailed, wsame, ev>>

hist == <<hct, hstatus, hfetched, hknown, attempts>>

obs == <<watch, wseen, wlisting, wfailed, wsame>>

NoAttempts == [i \in Ids |-> 0]

NoFetches == [c \in ContentTypeSet |-> 0]

Event(op, ct, id, out) == [op |-> op, ct |-> ct, id |-> id, out |-> out]

Start ==
    /\ pc = "init"
    /\ video_ids = [c \in {} |-> {}]
    /\ idx = 1
    /\ pending = {}
    /\ baseline = [c \in ContentTypeSet |-> {}]
    /\ succeeded = [c \in ContentTypeSet |-> {}]
    /\ hct = "none"
    /\ hstatus = "none"
    /\ hfetched = {}
    /\ hknown = {}
    /\ attempts = NoAttempts
    /\ nfetch = NoFetches
    /\ wseen = FALSE
    /\ wlisting = {}
    /\ wfailed = {}
    /\ wsame = FALSE
    /\ ev = Event("start", "none", 0, "none")

Init ==
    /\ Start
    /\ announcements \in Configs
    /\ watch = "none"

\* The run with the first content type observed across cycles, under the
\* configuration that maps that type only.
InitWatch ==
    /\ Start
    /\ watch = CONTENT_TYPES[1]
    /\ announcements = {watch}

\* Keys of self.video_ids in insertion order.
Keys == SubSeq(CONTENT_TYPES, 1, Cardinality(DOMAIN video_ids))

\* The for loop of __init__ moves to the next content type, or __init__
\* returns and main() calls run().
InitAdvanceEarly == pc' = "idle" /\ idx' = 1

InitAdvance ==
    IF idx < Len(CONTENT_TYPES)
    THEN pc' = "init" /\ idx' = idx + 1
    ELSE pc' = "idle" /\ idx' = 1

\* An exception of get_video_ids in __init__: nothing catches it in __init__
\* or in main(), the process ends.
InitFailedSkips == InitAdvance

InitFailed == pc' = "stopped" /\ idx' = idx

\* Looper.__init__: one pass of the loop over CONTENT_TYPES; main() calls
\* run() once the loop is over.
InitFetch(S, out) ==
    /\ pc = "init"
    /\ LET ct == CONTENT_TYPES[idx] IN
        IF out = "ok"
        THEN /\ video_ids' = [c \in DOMAIN video_ids \cup {ct} |->
                                 IF c = ct THEN S ELSE video_ids[c]]
             /\ baseline' = [baseline EXCEPT ![ct] = S]
             /\ InitAdvance
             /\ ev' = Event("baseline", ct, 0, "ok")
        ELSE /\ out \in FetchErrors
             /\ S = {}
             /\ InitFailed
             /\ ev' = Event("baseline", ct, 0, out)
             /\ UNCHANGED <<video_ids, baseline>>
    /\ UNCHANGED <<announcements, pending, succeeded, hist, nfetch, obs>>

\* Looper.looper up to the for loop: time.sleep(1).
Sleep ==
    /\ pc = "idle"
    /\ pc' = "scanning"
    /\ idx' = 1
    /\ pending' = {}
    /\ hct' = "none"
    /\ hstatus' = "none"
    /\ hfetched' = {}
    /\ hknown' = {}
    /\ attempts' = NoAttempts
    /\ nfetch' = NoFetches
    /\ ev' = Event("sleep", "none", 0, "none")
    /\ UNCHANGED <<announcements, video_ids, baseline, succeeded, obs>>

\* The for loop of looper moves to the next key, or looper returns and run
\* calls it again.
AdvanceReturns == pc' = "idle" /\ idx' = 1

Advance ==
    IF idx < Len(Keys)
    THEN pc' = "scanning" /\ idx' = idx + 1
    ELSE pc' = "idle" /\ idx' = 1

\* Looper.try_check_video_ids up to the first pass of check_new_video_ids.
TryCheckVideoIds(S, out) ==
    /\ pc = "scanning"
    /\ pending = {}
    /\ LET ct == Keys[idx] IN
        /\ hct' = ct
        /\ attempts' = NoAttempts
        /\ nfetch' = [nfetch EXCEPT ![ct] = @ + 1]
        /\ hknown' = video_ids[ct]
        /\ ev' = Event("fetch", ct, 0, out)
        /\ IF out = "ok"
           THEN /\ Cardinality(S) <= Limit
                /\ hstatus' = "ok"
                /\ hfetched' = S
                /\ pending' = S
                /\ IF ct = watch
                   THEN /\ wseen' = TRUE
                        /\ wlisting' = S
                        /\ wfailed' = {}
                        /\ wsame' = (wseen /\ S = wlisting)
                   ELSE UNCHANGED <<wseen, wlisting, wfailed, wsame>>
                /\ IF S = {} THEN Advance ELSE UNCHANGED <<pc, idx>>
           ELSE /\ out \in FetchErrors
                /\ S = {}
                /\ hstatus' = "failed"
                /\ hfetched' = {}
                /\ pending' = {}
                /\ UNCHANGED <<wseen, wlisting, wfailed, wsame>>
                /\ IF out \in CaughtFetchErrors
                   THEN Advance
                   ELSE pc' = "stopped" /\ idx' = idx
    /\ UNCHANGED <<announcements, video_ids, baseline, succeeded, watch>>

\* Line 106 of check_new_video_id: the id is not yet in self.video_ids.
IsNewAnywhere(ct, i) == \A c \in DOMAIN video_ids : i \notin video_ids[c]

IsNewAlways(ct, i) == TRUE

IsNew(ct, i) == i \notin video_ids[ct]

\* Lines 117-118 of check_new_video_id: self.video_ids[ct] after the call.
AddedAlways(ct, i, result) == video_ids[ct] \cup {i}

AddedNever(ct, i, result) == video_ids[ct]

AddedAssign(ct, i, result) ==
    IF result = "True" THEN {i} ELSE video_ids[ct]

Added(ct, i, result) ==
    IF result = "True" THEN video_ids[ct] \cup {i} ELSE video_ids[ct]

\* Looper.send_announcment: the value it returns, or the exception it raises.
SendAnnouncmentAnyStatus(ct, out) ==
    IF ct \notin announcements THEN "KeyError"
    ELSE IF out.exc # "none" THEN out.exc
    ELSE "True"

SendAnnouncment(ct, out) ==
    IF ct \notin announcements THEN "KeyError"
    ELSE IF out.exc # "none" THEN out.exc
    ELSE IF out.status = StatusOk THEN "True" ELSE "False"

\* Looper.check_new_video_id for the next id of the fetched set, and the
\* loop of check_new_video_ids moving on.
CheckNewVideoId(i, out) ==
    /\ pc = "scanning"
    /\ i \in pending
    /\ pending' = pending \ {i}
    /\ LET ct == Keys[idx] IN
        IF ~IsNew(ct, i)
        THEN /\ out = NoPost
             /\ ev' = Event("check", ct, i, "known")
             /\ IF pending' = {} THEN Advance ELSE UNCHANGED <<pc, idx>>
             /\ UNCHANGED <<video_ids, succeeded, attempts, wfailed>>
        ELSE LET result == SendAnnouncment(ct, out) IN
             /\ ct \notin announcements => out = NoPost
             /\ attempts' = [attempts EXCEPT ![i] = @ + 1]
             /\ ev' = Event("deliver", ct, i,
                            IF result \in {"True", "False"}
                            THEN ToString(out.status) ELSE result)
             /\ video_ids' = [video_ids EXCEPT ![ct] = Added(ct, i, result)]
             /\ succeeded' = IF result = "True"
                             THEN [succeeded EXCEPT ![ct] = @ \cup {i}]
                             ELSE succeeded
             /\ wfailed' = IF ct = watch /\ result # "True"
                           THEN wfailed \cup {i} ELSE wfailed
             /\ IF result \in {"True", "False"} \cup CaughtPostErrors
                THEN IF pending' = {} THEN Advance ELSE UNCHANGED <<pc, idx>>
                ELSE pc' = "stopped" /\ idx' = idx
    /\ UNCHANGED <<announcements, baseline, hct, hstatus, hfetched, hknown,
                   nfetch, watch, wseen, wlisting, wsame>>

Next ==
    \/ \E S \in Baselines, out \in {"ok"} \cup FetchErrors : InitFetch(S, out)
    \/ Sleep
    \/ \E S \in SUBSET Ids, out \in {"ok"} \cup FetchErrors :
           TryCheckVideoIds(S, out)
    \/ \E i \in Ids, out \in PostOutcomes : CheckNewVideoId(i, out)

Spec == Init /\ [][Next]_vars

SpecWatch == InitWatch /\ [][Next]_vars

\* run() is `while True` in a single thread: as long as no exception ended
\* the process, the next step of the loop is taken.
SpecFair == SpecWatch /\ WF_vars(Next)

----------------------------------------------------------------------------
\* Vocabulary of the properties.

\* The known set of a content type (empty before the constructor fills it).
Known(c) == IF c \in DOMAIN video_ids THEN video_ids[c] ELSE {}

\* The step taken is a call of send_announcment for id i of content type c.
AttemptStep(c, i) == ev'.op = "deliver" /\ ev'.ct = c /\ ev'.id = i

\* Ids send_announcment was called for since the last bounded fetch.
Attempted == {i \in Ids : attempts[i] > 0}

\* The new-identifier delta of the last bounded fetch.
Delta == hfetched \ hknown

----------------------------------------------------------------------------
\* C1: in every reachable state an id is in the known set of a content type
\* exactly when the baseline fetch for that type returned it or a delivery
\* attempt for it in that type has succeeded.
C1_KnownIffBaselineOrDelivered ==
    \A c \in ContentTypeSet, i \in Ids :
        i \in Known(c) <=> (i \in baseline[c] \/ i \in succeeded[c])

\* A type whose known set holds baseline ids and a delivered id, while an id
\* whose delivery was attempted without success stays out of it.
C1_Witness ==
    \E c \in ContentTypeSet :
        /\ baseline[c] # {}
        /\ succeeded[c] # {}
        /\ video_ids[c] = baseline[c] \cup succeeded[c]
        /\ \E d \in ContentTypeSet \ {c} :
               /\ ev.op = "deliver" /\ ev.ct = d /\ ev.out = "403"
               /\ ev.id \notin Known(d)

\* C2: once the delivery of an id in a content type has succeeded, no later
\* step is a delivery attempt for that id in that type.
C2_NoAttemptAfterSuccess ==
    [][\A c \in ContentTypeSet, i \in Ids :
          AttemptStep(c, i) => i \notin succeeded[c]]_vars

\* A later fetch returned an id delivered before and the check skipped it.
C2_Witness ==
    /\ ev.op = "check"
    /\ ev.out = "known"
    /\ ev.id \in succeeded[ev.ct]

\* C3: no delivery attempt is ever made for an id the baseline fetch of its
\* content type returned.
C3_BaselineNeverAttempted ==
    ev.op = "deliver" => ev.id \notin baseline[ev.ct]

\* A bounded fetch returned a baseline id and the check skipped it.
C3_Witness ==
    /\ ev.op = "check"
    /\ ev.out = "known"
    /\ ev.id \in baseline[ev.ct]
    /\ hfetched # baseline[ev.ct]

\* C4: in a cycle in which the fetch for a content type succeeds, delivery
\* is attempted once for each fetched id that was not in the known set and
\* for no other id: at any moment of the scan every attempt made is for an
\* id of the delta, none is made twice, and the ids of the delta not yet
\* attempted are still to be visited, so that the attempted ids are the delta
\* when the last id has been visited. The known set the delta is taken
\* against holds the baseline and the ids delivered before, so an id whose
\* delivery has not succeeded is attempted again whenever a fetch returns it.
C4_AttemptsExactlyNew ==
    hstatus = "ok" =>
        /\ \A i \in Ids : attempts[i] <= 1
        /\ Attempted \cap pending = {}
        /\ Attempted \cup (pending \ hknown) = Delta
        /\ pending = {} => Attempted = Delta
        /\ hknown = baseline[hct] \cup (succeeded[hct] \ Attempted)

\* The scan of a listing holding a known id is over and the attempts were
\* made for its other id alone.
C4_Witness ==
    /\ hstatus = "ok"
    /\ pc \in {"scanning", "idle"}
    /\ pending = {}
    /\ hfetched \cap hknown # {}
    /\ Attempted # {}
    /\ Attempted = hfetched \ hknown

\* The step taken is a bounded fetch of the observed content type that
\* returns the listing the successful fetch before it returned.
SameListingAgain ==
    /\ ev'.op = "fetch"
    /\ ev'.out = "ok"
    /\ ev'.ct = watch
    /\ wseen
    /\ hfetched' = wlisting

\* C6 as stated: when two consecutive successful fetches for a content type
\* return the same listing, the delta of the second fetch is empty.
C6_SecondDeltaEmpty ==
    [][SameListingAgain => hfetched' \ hknown' = {}]_vars

\* C6 as amended: when two consecutive successful fetches for a content type
\* return the same listing, the delta of the second fetch is the set of ids
\* whose delivery attempt after the first fetch did not succeed; it is empty,
\* and the scan of the second fetch attempts no delivery, when every such
\* attempt succeeded.
C6_SecondDeltaIsUndelivered ==
    [][/\ SameListingAgain => hfetched' \ hknown' = wfailed
       /\ \A i \in Ids : AttemptStep(watch, i) =>
              /\ hct = watch
              /\ i \in Delta]_vars

\* The second of two fetches returning the same listing has a delta: the id
\* whose delivery did not succeed after the first.
C6_Witness ==
    /\ wsame
    /\ ev.op = "fetch"
    /\ ev.ct = watch
    /\ hfetched = wlisting
    /\ Delta # {}
    /\ hfetched \cap succeeded[watch] # {}

\* Position of the loop of looper after the content type at idx.
MovedOn ==
    IF idx < Len(CONTENT_TYPES)
    THEN pc' = "scanning" /\ idx' = idx + 1
    ELSE pc' = "idle"

\* Every cycle fetches each content type when the loop reaches it: a scan
\* starts at the first type, the step at a type with nothing left to visit is
\* its fetch, and the position never moves back within a scan.
FetchedEveryCycle ==
    /\ ev'.op = "sleep" => pc' = "scanning" /\ idx' = 1 /\ pending' = {}
    /\ (pc = "scanning" /\ pending = {}) =>
           ev'.op = "fetch" /\ ev'.ct = CONTENT_TYPES[idx]
    /\ (pc = "scanning" /\ pc' = "scanning") => idx' >= idx

\* C7: a bounded fetch failing with a connectivity failure leaves every
\* known set unchanged, queues no id (delivery is attempted only for ids of
\* the last fetch, which must have succeeded for the type at hand), moves
\* the loop to the next content type of the cycle, and the next cycle
\* fetches the type again.
C7_FetchFailureSkipsCategory ==
    [][/\ (ev'.op = "fetch" /\ ev'.out = "ConnectionError") =>
              /\ video_ids' = video_ids
              /\ pending' = {}
              /\ attempts' = NoAttempts
              /\ hstatus' = "failed"
              /\ MovedOn
       /\ \A c \in ContentTypeSet, i \in Ids : AttemptStep(c, i) =>
              /\ c = CONTENT_TYPES[idx]
              /\ hct = c
              /\ hstatus = "ok"
              /\ i \in hfetched
       /\ FetchedEveryCycle]_vars

\* The fetch of the first content type failed on the connection and the
\* loop stands at the second type.
C7_Witness ==
    /\ ev.op = "fetch"
    /\ ev.out = "ConnectionError"
    /\ ev.ct = CONTENT_TYPES[1]
    /\ pc = "scanning"
    /\ idx = 2
    /\ pending = {}

\* C8 as stated: each kind of failure of a bounded fetch (network failure,
\* malformed payload, truncated transfer) is recovered: the content type is
\* skipped and the process does not stop.
C8_EveryFetchFailureRecovered ==
    [][\A k \in FailureKinds :
          (ev'.op = "fetch" /\ ev'.out = Raises(k)) =>
              /\ pc' # "stopped"
              /\ MovedOn
              /\ video_ids' = video_ids]_vars

\* A fetch returning id i of content type c that is not in the known set
\* queues it, and the visit of a queued id not in the known set is a
\* delivery attempt.
RetriedWhenFetched(c, i) ==
    /\ (/\ ev'.op = "fetch" /\ ev'.ct = c /\ ev'.out = "ok"
        /\ i \in hfetched' /\ i \notin video_ids[c]) =>
           (i \in pending' /\ pc' = "scanning" /\ CONTENT_TYPES[idx'] = c)
    /\ (/\ pc = "scanning" /\ CONTENT_TYPES[idx] = c
        /\ i \in pending /\ i \notin pending' /\ i \notin video_ids[c]) =>
           AttemptStep(c, i)

\* C9: a delivery attempt that times out leaves the known sets unchanged
\* and the id out of them, does not stop the loop, leaves the other ids of
\* the fetch queued for their visit, is the only attempt for the id in the
\* cycle (an attempt is made only for a queued id not attempted since the
\* fetch), and a later fetch returning the id queues it for a new attempt.
C9_TimeoutLeavesIdNew ==
    [][\A c \in ContentTypeSet, i \in Ids :
          /\ (AttemptStep(c, i) /\ ev'.out = "Timeout") =>
                 /\ video_ids' = video_ids
                 /\ i \notin video_ids'[c]
                 /\ pc' # "stopped"
                 /\ pending' = pending \ {i}
                 /\ attempts' = [attempts EXCEPT ![i] = 1]
                 /\ IF pending' # {}
                    THEN pc' = "scanning" /\ idx' = idx
                    ELSE MovedOn
          /\ AttemptStep(c, i) => (i \in pending /\ attempts[i] = 0)
          /\ RetriedWhenFetched(c, i)]_vars

\* An attempt timed out and another id of the same fetch is still queued.
C9_Witness ==
    /\ ev.op = "deliver"
    /\ ev.out = "Timeout"
    /\ pc = "scanning"
    /\ pending # {}
    /\ pending \cap video_ids[ev.ct] = {}
    /\ ev.id \notin video_ids[ev.ct]

\* The outcomes of a post answered with a status other than 200.
Rejections == {ToString(st) : st \in StatusCodes \ {StatusOk}}

\* C10: a delivery attempt answered with a non-success status does not add
\* the id to the known set, does not stop the loop, and a later fetch
\* returning the id queues it for a new attempt.
C10_RejectionLeavesIdNew ==
    [][\A c \in ContentTypeSet, i \in Ids :
          /\ (AttemptStep(c, i) /\ ev'.out \in Rejections) =>
                 /\ i \notin video_ids'[c]
                 /\ video_ids' = video_ids
                 /\ succeeded' = succeeded
                 /\ pc' # "stopped"
                 /\ IF pending' # {}
                    THEN pc' = "scanning" /\ idx' = idx
                    ELSE MovedOn
          /\ RetriedWhenFetched(c, i)]_vars

\* The last attempt of a scan was rejected and the loop went on.
C10_Witness ==
    /\ ev.op = "deliver"
    /\ ev.out \in Rejections
    /\ pending = {}
    /\ pc \in {"scanning", "idle"}
    /\ ev.id \notin video_ids[ev.ct]
    /\ ev.id \in hfetched

\* The loop of run has been entered, or one of its steps has been taken.
LoopEntered ==
    \/ pc \in {"idle", "scanning"}
    \/ ev.op \in {"sleep", "fetch", "check", "deliver"}

\* C11 as stated: when the configuration lacks the mapping of a content
\* type, startup fails before the loop begins: no cycle is started and no
\* bounded fetch or delivery is performed.
C11_MissingMappingStopsStartup ==
    announcements # ContentTypeSet => ~LoopEntered

\* The baseline fetch of some content type has failed.
BaselineFailed == ev.op = "baseline" /\ ev.out # "ok"

\* C12: a failing baseline fetch stops the process at startup: the step
\* that fails leaves the process stopped with the loop not entered, no
\* bounded fetch made and no delivery attempted, and no step follows it.
C12_BaselineFailureIsFatal ==
    [][/\ BaselineFailed' =>
              /\ pc = "init"
              /\ pc' = "stopped"
              /\ ~LoopEntered'
              /\ hstatus' = "none"
              /\ attempts' = NoAttempts
              /\ \A c \in ContentTypeSet : succeeded'[c] = {}
       /\ ~BaselineFailed]_vars

\* The baseline fetch of the second content type failed after the first
\* had succeeded.
C12_Witness ==
    /\ BaselineFailed
    /\ ev.ct = CONTENT_TYPES[2]
    /\ DOMAIN video_ids = {CONTENT_TYPES[1]}
    /\ pc = "stopped"

\* Startup has succeeded: the constructor has filled every known set.
Started == DOMAIN video_ids = ContentTypeSet

\* C13 as stated: after a successful startup the loop has no terminal
\* state, whatever the outcomes of the fetches and of the delivery attempts
\* (here under the complete configuration).
C13_NoTerminalState ==
    (Started /\ announcements = ContentTypeSet) => pc # "stopped"

\* Positions of CONTENT_TYPES.
Positions == 1..Len(CONTENT_TYPES)

\* C14: the loop alternates sleeping and scanning. A cycle starts with the
\* sleep, which is the only step taken while idle; fetches, checks and
\* deliveries happen only while scanning; the scan fetches the content types
\* one after the other in the order of CONTENT_TYPES, each once; the checks
\* and deliveries of a type are made on the ids of its own fetch before any
\* later type is fetched; and the scan turns idle only from the last type
\* with nothing left to visit and every type fetched once.
C14_SleepThenScanInOrder ==
    [][/\ pc = "idle" => ev'.op = "sleep"
       /\ ev'.op = "sleep" =>
              /\ pc = "idle" /\ pc' = "scanning"
              /\ idx' = 1 /\ pending' = {} /\ nfetch' = NoFetches
       /\ ev'.op \in {"fetch", "check", "deliver"} => pc = "scanning"
       /\ ev'.op = "fetch" =>
              /\ pending = {}
              /\ ev'.ct = CONTENT_TYPES[idx]
              /\ nfetch' = [nfetch EXCEPT ![ev'.ct] = 1]
              /\ \A k \in Positions :
                     nfetch[CONTENT_TYPES[k]] = IF k < idx THEN 1 ELSE 0
       /\ ev'.op \in {"check", "deliver"} =>
              /\ ev'.ct = CONTENT_TYPES[idx]
              /\ hct = ev'.ct
              /\ ev'.id \in pending
              /\ nfetch' = nfetch
              /\ \A k \in Positions : k > idx => nfetch[CONTENT_TYPES[k]] = 0
       /\ (pc = "scanning" /\ pc' = "scanning") =>
              /\ idx' \in {idx, idx + 1}
              /\ idx' = idx + 1 => pending' = {}
       /\ (pc = "scanning" /\ pc' = "idle") =>
              /\ idx = Len(CONTENT_TYPES)
              /\ pending' = {}
              /\ \A c \in ContentTypeSet : nfetch'[c] = 1]_vars

\* A cycle is over whose scan fetched every content type once and
\* delivered an id of the last one.
C14_Witness ==
    /\ pc = "idle"
    /\ ev.op = "deliver"
    /\ ev.ct = CONTENT_TYPES[Len(CONTENT_TYPES)]
    /\ \A c \in ContentTypeSet : nfetch[c] = 1

\* C15: the baseline is complete before the loop starts. Once the loop is
\* entered (first sleep, bounded fetch or delivery attempt) every content
\* type has a known set, which holds the listing of its baseline fetch; and
\* as long as it is not entered the known sets are the baseline listings of
\* the content types fetched so far, in the order of CONTENT_TYPES, with no
\* bounded fetch made and no delivery attempted.
C15_BaselineBeforeLoop ==
    /\ LoopEntered =>
           /\ Started
           /\ \A c \in ContentTypeSet : baseline[c] \subseteq video_ids[c]
    /\ ~LoopEntered =>
           /\ ev.op \in {"start", "baseline"}
           /\ DOMAIN video_ids = {CONTENT_TYPES[k] : k \in 1..(idx - 1)}
           /\ \A c \in DOMAIN video_ids : video_ids[c] = baseline[c]
           /\ \A c \in ContentTypeSet : succeeded[c] = {}
           /\ attempts = NoAttempts
           /\ nfetch = NoFetches
           /\ hstatus = "none"
    /\ (pc = "idle" /\ ev.op = "baseline") =>
           /\ Started
           /\ video_ids = baseline

\* The constructor has returned with a baseline for every content type and
\* the loop has not slept yet.
C15_Witness ==
    /\ pc = "idle"
    /\ ev.op = "baseline"
    /\ Started
    /\ \A c \in ContentTypeSet : video_ids[c] = baseline[c]
    /\ \E c \in ContentTypeSet : baseline[c] # {}

\* The step taken is a delivery of id i of content type c that succeeded.
DeliveredStep(c, i) == AttemptStep(c, i) /\ ev'.out = ToString(StatusOk)

\* C16: in the steady state the only change of the program's data is the
\* addition of an id to a known set, made by the step of its successful
\* delivery: a step that changes video_ids is a successful delivery for
\* (c, i) and adds i to the known set of c and nothing else, a successful
\* delivery has the id in the known set when it ends, before any other step,
\* and sleep, fetch, check and unsuccessful delivery change no known set; the
\* configuration never changes.
C16_OnlyDeliveryAddsAtOnce ==
    [][/\ announcements' = announcements
       /\ \A c \in ContentTypeSet, i \in Ids : DeliveredStep(c, i) =>
              /\ i \notin video_ids[c]
              /\ video_ids' = [video_ids EXCEPT ![c] = @ \cup {i}]
       /\ (pc # "init" /\ video_ids' # video_ids) =>
              \E c \in ContentTypeSet, i \in Ids : DeliveredStep(c, i)
       /\ (ev'.op \in {"sleep", "fetch", "check"}
              \/ (ev'.op = "deliver" /\ ev'.out # ToString(StatusOk))) =>
              video_ids' = video_ids]_vars

\* A delivery succeeded in mid-scan: the id is in the known set while ids
\* of the same fetch are still to be visited.
C16_Witness ==
    /\ ev.op = "deliver"
    /\ ev.out = ToString(StatusOk)
    /\ pc = "scanning"
    /\ pending # {}
    /\ idx = 1
    /\ video_ids[ev.ct] = hknown \cup {ev.id}
    /\ ev.id \notin hknown

\* C17: content types are tracked independently. A step changes the known
\* set of the content type it is about and no other, and the visit of a
\* fetched id is a delivery attempt exactly when the id is not in the known
\* set of the type being scanned, whatever the other known sets hold.
C17_CategoriesIndependent ==
    [][pc # "init" =>
          /\ \A c \in ContentTypeSet :
                 video_ids'[c] # video_ids[c] => (ev'.op = "deliver" /\ ev'.ct = c)
          /\ \A i \in Ids :
                 (pc = "scanning" /\ i \in pending /\ i \notin pending') =>
                     /\ ev'.id = i
                     /\ ev'.ct = CONTENT_TYPES[idx]
                     /\ ev'.op = IF i \in video_ids[CONTENT_TYPES[idx]]
                                 THEN "check" ELSE "deliver"]_vars

\* An id in the known set of one content type was delivered in another.
C17_Witness ==
    /\ ev.op = "deliver"
    /\ ev.out = ToString(StatusOk)
    /\ \E d \in ContentTypeSet \ {ev.ct} :
           /\ ev.id \in baseline[d] \cup succeeded[d]
           /\ \E e \in ContentTypeSet \ {ev.ct, d} : ev.id \notin video_ids[e]

\* The last step was a bounded fetch for content type c that succeeded.
FetchOk(c) == ev.op = "fetch" /\ ev.ct = c /\ ev.out = "ok"

\* The last step was a delivery attempt for id i of content type c.
AttemptOf(c, i) == ev.op = "deliver" /\ ev.ct = c /\ ev.id = i

\* C18: for a content type c and an id i outside the baseline of c, if from
\* some point on every successful fetch for c returns i, fetches for c
\* succeed infinitely often, and a delivery for (c, i) that is attempted
\* infinitely often eventually succeeds, then i is eventually in the known
\* set of c and from then on no delivery is attempted for it.
C18_NewIdEventuallyKnown ==
    \A c \in ContentTypeSet, i \in Ids :
        (/\ <>[](i \notin baseline[c])
         /\ <>[](FetchOk(c) => i \in hfetched)
         /\ []<>FetchOk(c)
         /\ ([]<>AttemptOf(c, i) => <>[](i \in succeeded[c])))
        => <>[](i \in Known(c) /\ ~AttemptOf(c, i))

\* An id outside the baseline, returned again by the fetch that repeated the
\* listing of the one before, was delivered at that retry and is known.
C18_Witness ==
    /\ AttemptOf(watch, ev.id)
    /\ ev.out = ToString(StatusOk)
    /\ wsame
    /\ ev.id \in hfetched
    /\ ev.id \notin baseline[watch]
    /\ ev.id \in Known(watch)

\* C5: no step removes an id from the known set of any content type.
C5_KnownNeverShrinks ==
    [][\A c \in DOMAIN video_ids :
          /\ c \in DOMAIN video_ids'
          /\ video_ids[c] \subseteq video_ids'[c]]_vars

\* A known set that held an id gained a second one by a delivery.
C5_Witness ==
    /\ ev.op = "deliver"
    /\ ev.out = "200"
    /\ hknown # {}
    /\ video_ids[ev.ct] = hknown \cup {ev.id}
    /\ ev.id \notin hknown

TypeOK ==
    /\ pc \in {"init", "idle", "scanning", "stopped"}
    /\ announcements \subseteq ContentTypeSet
    /\ DOMAIN video_ids \subseteq ContentTypeSet
    /\ \A c \in DOMAIN video_ids : video_ids[c] \subseteq Ids
    /\ idx \in 1..Len(CONTENT_TYPES)
    /\ pending \subseteq Ids

====
